---- MODULE Spec2Model ----
(***************************************************************************)
(* A model of src/app/app.cpp of tiny_io_expander: the circular output     *)
(* buffer (respond_putc, App::write_buffer, App::write_done), the          *)
(* responder (vrespond), the byte-driven command parser (Parser) and the   *)
(* dispatcher (App::perform_command, App::parse, App::read_done).          *)
(*                                                                         *)
(* Bytes are their ASCII codes.  `char` is unsigned on the target of this  *)
(* firmware (arm-none-eabi), so a byte is a number in 0..255.              *)
(***************************************************************************)
EXTENDS Integers, Sequences, FiniteSets, TLC

(***************************************************************************)
(* Sizes.  output_bufferSIZE is 2048 in the source (app.cpp:17); the model *)
(* is checked with a small ring so that wraparound, the full buffer and    *)
(* truncated responses are all reached.  Nothing below depends on its      *)
(* value other than through sizeof(output_buffer).                         *)
(***************************************************************************)
output_bufferSIZE == 8

\* How many packets the transport delivers in one run of the model.
MaxReads == 2

RX_BUFFER_SIZE == 64 + 1

NUM_VALUES == 2

TIMEOUT_DELAY == 10 * 1000 * 1000

RESET_DELAY_MS == 100

\* The two privileged codes of the reset command (app.cpp:276, 279).
USB_BOOT_CODE == 5511

REBOOT_CODE == 1033

\* uint16_t arithmetic of Parser::values.
UINT16 == 65536

\* The ASCII codes the source names as character literals.
chr == [ESC |-> 27, SPACE |-> 32, CR |-> 13, LF |-> 10, PERCENT |-> 37,
        QUOTE |-> 39, COMMA |-> 44, COLON |-> 58, MINUS |-> 45,
        ZERO |-> 48, NINE |-> 57,
        S |-> 83, s |-> 115, R |-> 82, r |-> 114, V |-> 86, v |-> 118,
        c |-> 99, d |-> 100, i |-> 105, u |-> 117]

Min(x, y) == IF x <= y THEN x ELSE y

Take(s, n) == SubSeq(s, 1, Min(n, Len(s)))

Drop(s, n) == SubSeq(s, Min(n, Len(s)) + 1, Len(s))

\* F(x), with x evaluated once, before F is applied: the state that the
\* recursive operators below hand on is computed at each step, not carried
\* along as an ever longer unevaluated expression.
Eval(x, F(_)) == CHOOSE y \in { F(v) : v \in {x} } : TRUE

(***************************************************************************)
(* The format strings of the source, as the bytes of the literals.         *)
(***************************************************************************)
\* "Ec'%c'\r\n"
FMT_BAD_COMMAND == <<69, 99, 39, 37, 99, 39, 13, 10>>

\* "Et'%c'\r\n"
FMT_BAD_TARGET == <<69, 116, 39, 37, 99, 39, 13, 10>>

\* "Er%d\r\n"
FMT_BAD_RESET == <<69, 114, 37, 100, 13, 10>>

\* "Ev%d\r\n"
FMT_BAD_VALVE == <<69, 118, 37, 100, 13, 10>>

\* A faulty "AV0\r\n": the line ends with LF alone.
FMT_ACK_VALVE0_LF == <<65, 86, 48, 10>>

\* "AV0\r\n"
FMT_ACK_VALVE0 == <<65, 86, 48, 13, 10>>

\* "AV1\r\n"
FMT_ACK_VALVE1 == <<65, 86, 49, 13, 10>>

\* "R{\"l\":%d,\"v0\":%d,\"v1\":%d,\"m0\":%c%d,\"m1\":%c%d,\"m2\":%c%d,"
\* "\"f0\":%c%d,\"f1\":%c%d}\r\n"
FMT_STATUS ==
  <<82, 123, 34, 108, 34, 58, 37, 100, 44, 34, 118, 48, 34, 58, 37, 100, 44,
    34, 118, 49, 34, 58, 37, 100, 44, 34, 109, 48, 34, 58, 37, 99, 37, 100,
    44, 34, 109, 49, 34, 58, 37, 99, 37, 100, 44, 34, 109, 50, 34, 58, 37,
    99, 37, 100, 44, 34, 102, 48, 34, 58, 37, 99, 37, 100, 44, 34, 102, 49,
    34, 58, 37, 99, 37, 100, 125, 13, 10>>

(***************************************************************************)
(* The program state as one record `a`, threaded through the operators     *)
(* that model the functions of the source:                                 *)
(*   output_buffer, tx_index, tx_sent   the statics of app.cpp:18-25       *)
(*   parser                             the static Parser of app.cpp:204   *)
(*   timeout_                           App::timeout_                      *)
(*   boot                               "run", or which reset path was     *)
(*                                      taken                              *)
(*   calls                              the calls made on the hardware     *)
(*                                      collaborators by the handler that  *)
(*                                      is running (an observation)        *)
(*   queued                             history: the bytes respond_putc    *)
(*                                      accepted and write_done has not    *)
(*                                      yet marked as sent                 *)
(***************************************************************************)

(***************************************************************************)
(* Output ring buffer.                                                     *)
(***************************************************************************)
\* A faulty respond_putc: the write cursor is never wrapped to 0.
respond_putc_nowrap(a, ch) ==
  LET new_index == a.tx_index + 1
  IN  IF new_index = a.tx_sent \/ new_index >= output_bufferSIZE
        THEN [a |-> a, room |-> FALSE]
        ELSE [a |-> [a EXCEPT !.output_buffer[a.tx_index] = ch,
                              !.tx_index = new_index,
                              !.queued = Append(@, ch)],
              room |-> TRUE]

\* A faulty respond_putc: the buffer-full test is missing.
respond_putc_nofull(a, ch) ==
  LET new_index == IF a.tx_index + 1 >= output_bufferSIZE
                     THEN 0 ELSE a.tx_index + 1
  IN  [a |-> [a EXCEPT !.output_buffer[a.tx_index] = ch,
                       !.tx_index = new_index,
                       !.queued = Append(@, ch)],
       room |-> TRUE]

\* A faulty respond_putc: the buffer is taken to be full one byte early,
\* when two slots are left between the cursors.
respond_putc_early(a, ch) ==
  LET new_index == IF a.tx_index + 1 >= output_bufferSIZE
                     THEN 0 ELSE a.tx_index + 1
      after_it  == IF new_index + 1 >= output_bufferSIZE
                     THEN 0 ELSE new_index + 1
  IN  IF new_index = a.tx_sent \/ after_it = a.tx_sent
        THEN [a |-> a, room |-> FALSE]
        ELSE [a |-> [a EXCEPT !.output_buffer[a.tx_index] = ch,
                              !.tx_index = new_index,
                              !.queued = Append(@, ch)],
              room |-> TRUE]

\* auto respond_putc(char c) -> bool
respond_putc(a, ch) ==
  LET new_index == IF a.tx_index + 1 >= output_bufferSIZE
                     THEN 0 ELSE a.tx_index + 1
  IN  IF new_index = a.tx_sent
        THEN [a |-> a, room |-> FALSE]
        ELSE [a |-> [a EXCEPT !.output_buffer[a.tx_index] = ch,
                              !.tx_index = new_index,
                              !.queued = Append(@, ch)],
              room |-> TRUE]

\* A faulty App::write_buffer: the span runs past the end of the storage.
write_buffer_nosplit(a) ==
  [start |-> a.tx_sent,
   size  |-> (a.tx_index - a.tx_sent + output_bufferSIZE) % output_bufferSIZE]

\* auto App::write_buffer() -> std::pair<const char *, size_t>
write_buffer(a) ==
  [start |-> a.tx_sent,
   size  |-> IF a.tx_index < a.tx_sent
               THEN output_bufferSIZE - a.tx_sent
               ELSE a.tx_index - a.tx_sent]

\* A faulty App::write_done: the drain cursor is never wrapped to 0.
write_done_nowrap(a, length) ==
  [a EXCEPT !.tx_sent = a.tx_sent + length,
            !.queued = Drop(@, length)]

\* auto App::write_done(size_t length) -> void
write_done(a, length) ==
  LET new_sent == IF a.tx_sent + length >= output_bufferSIZE
                    THEN 0 ELSE a.tx_sent + length
  IN  [a EXCEPT !.tx_sent = new_sent,
                !.queued = Drop(@, length)]

\* The bytes of the span App::write_buffer hands to the transport.
Span(a) ==
  LET w == write_buffer(a)
  IN  [k \in 1..w.size |-> a.output_buffer[(w.start + k - 1) % output_bufferSIZE]]

\* (tx_index - tx_sent) mod C: the occupied bytes of the ring.
Occupied(a) ==
  (a.tx_index - a.tx_sent + output_bufferSIZE) % output_bufferSIZE

\* The occupied bytes, read from the drain cursor round to the write cursor.
Content(a) ==
  [k \in 1..Occupied(a) |-> a.output_buffer[(a.tx_sent + k - 1) % output_bufferSIZE]]

(***************************************************************************)
(* Directive decoder (class Conversion, declared in io/framework.h; its    *)
(* code is not part of app.cpp).  Only what the format strings of app.cpp  *)
(* use is modelled: %%, %c, %d/%i, %u; any other directive is UNKNOWN.     *)
(***************************************************************************)
\* Conversion::parse: the type of the directive whose first byte (after the
\* '%') is format[i], and where the format continues.
Conversion_parse(format, i) ==
  IF i > Len(format) THEN [type |-> "UNKNOWN", next |-> i]
  ELSE IF format[i] = chr.PERCENT THEN [type |-> "PERCENT", next |-> i + 1]
  ELSE IF format[i] = chr.c THEN [type |-> "CHARACTER", next |-> i + 1]
  ELSE IF format[i] \in {chr.d, chr.i} THEN [type |-> "SIGNED_INT", next |-> i + 1]
  ELSE IF format[i] = chr.u THEN [type |-> "UNSIGNED_INT", next |-> i + 1]
  ELSE [type |-> "UNKNOWN", next |-> i]

\* Conversion::from_character: the one character, as a C string.
from_character(value) == IF value = 0 THEN <<>> ELSE <<value>>

RECURSIVE from_unsigned_int(_)
\* Conversion::from_unsigned_int: the decimal digits, most significant first.
from_unsigned_int(value) ==
  IF value < 10 THEN <<chr.ZERO + value>>
  ELSE Append(from_unsigned_int(value \div 10), chr.ZERO + (value % 10))

\* Conversion::from_signed_int: a '-' before the digits of a negative value.
from_signed_int(value) ==
  IF value < 0 THEN <<chr.MINUS>> \o from_unsigned_int(0 - value)
  ELSE from_unsigned_int(value)

(***************************************************************************)
(* Responder.                                                              *)
(***************************************************************************)
RECURSIVE puts(_, _, _)
\* while (room && *buffer != '\0') room = respond_putc(*buffer++);
\* (app.cpp:100-104), entered with room true.
puts(a, buffer, j) ==
  IF j > Len(buffer) THEN [a |-> a, room |-> TRUE]
  ELSE Eval(respond_putc(a, buffer[j]),
            LAMBDA r : IF r.room THEN puts(r.a, buffer, j + 1) ELSE r)

RECURSIVE vrespond_from(_, _, _, _)
\* The loop of vrespond from format[i] on, with room true: a literal byte is
\* put; a directive takes its argument, is rendered and put byte by byte; an
\* unknown directive, or a refused byte, ends the call.
vrespond_from(a, format, i, args) ==
  IF i > Len(format) THEN a
  ELSE IF format[i] = chr.PERCENT
    THEN LET conv == Conversion_parse(format, i + 1)
             buffer == CASE conv.type = "PERCENT" -> from_character(chr.PERCENT)
                         [] conv.type = "CHARACTER" -> from_character(Head(args))
                         [] conv.type = "SIGNED_INT" -> from_signed_int(Head(args))
                         [] conv.type = "UNSIGNED_INT" -> from_unsigned_int(Head(args))
                         [] OTHER -> <<>>
             rest == IF conv.type = "PERCENT" THEN args ELSE Tail(args)
         IN  IF conv.type = "UNKNOWN" THEN a
             ELSE Eval(puts(a, buffer, 1),
                       LAMBDA r : IF r.room
                                    THEN vrespond_from(r.a, format, conv.next, rest)
                                    ELSE r.a)
    ELSE Eval(respond_putc(a, format[i]),
              LAMBDA r : IF r.room THEN vrespond_from(r.a, format, i + 1, args)
                         ELSE r.a)

\* auto vrespond(FORMAT format, va_list args) -> int.  The returned int is an
\* uninitialised local that no caller reads; it is not modelled.
vrespond(a, format, args) == vrespond_from(a, format, 1, args)

\* auto respond(FORMAT format...) -> int
respond(a, format, args) == vrespond(a, format, args)

(***************************************************************************)
(* Command parser.                                                         *)
(***************************************************************************)
\* Parser::Parser().  `parser` is a static object: index, which the
\* constructor does not name, is zero-initialised.
Parser_init ==
  [state |-> "COMMAND", command |-> "NONE", target |-> 0, index |-> 0,
   values |-> [k \in 0..(NUM_VALUES - 1) |-> 0]]

\* A faulty Parser::reset: the value slots are left as they are.
Parser_reset_keepvalues(p) ==
  [p EXCEPT !.state = "COMMAND", !.command = "NONE", !.target = 0, !.index = 0]

\* auto Parser::reset() -> void
Parser_reset(p) ==
  [state |-> "COMMAND", command |-> "NONE", target |-> 0, index |-> 0,
   values |-> [k \in DOMAIN p.values |-> 0]]

IsDigit(ch) == ch >= chr.ZERO /\ ch <= chr.NINE

\* A faulty case State::COMMAND: a space is taken for a bad command too
\* (c >= ' ' for c > ' ').
parse_COMMAND_geq(a, ch) ==
  IF ch \in {chr.s, chr.S}
    THEN [a |-> [a EXCEPT !.parser.command = "STATUS"], ret |-> TRUE]
  ELSE IF ch \in {chr.r, chr.R}
    THEN [a |-> [a EXCEPT !.parser.command = "RESET",
                          !.parser.state = "NEXT_VALUE"],
          ret |-> FALSE]
  ELSE IF ch \in {chr.v, chr.V}
    THEN [a |-> [a EXCEPT !.parser.command = "VALVE",
                          !.parser.state = "TARGET"],
          ret |-> FALSE]
  ELSE IF ch >= chr.SPACE
    THEN [a |-> [respond(a, FMT_BAD_COMMAND, <<ch>>)
                   EXCEPT !.parser = Parser_reset(a.parser)],
          ret |-> FALSE]
  ELSE [a |-> a, ret |-> FALSE]

\* case State::COMMAND of Parser::parse (app.cpp:150-164).
parse_COMMAND(a, ch) ==
  IF ch \in {chr.s, chr.S}
    THEN [a |-> [a EXCEPT !.parser.command = "STATUS"], ret |-> TRUE]
  ELSE IF ch \in {chr.r, chr.R}
    THEN [a |-> [a EXCEPT !.parser.command = "RESET",
                          !.parser.state = "NEXT_VALUE"],
          ret |-> FALSE]
  ELSE IF ch \in {chr.v, chr.V}
    THEN [a |-> [a EXCEPT !.parser.command = "VALVE",
                          !.parser.state = "TARGET"],
          ret |-> FALSE]
  ELSE IF ch > chr.SPACE
    THEN [a |-> [respond(a, FMT_BAD_COMMAND, <<ch>>)
                   EXCEPT !.parser = Parser_reset(a.parser)],
          ret |-> FALSE]
  ELSE [a |-> a, ret |-> FALSE]

\* A faulty case State::TARGET: after a bad target byte the parser is reset
\* only if the output buffer had room for the first byte of the error
\* response.
parse_TARGET_needroom(a, ch) ==
  IF ch = chr.ESC
    THEN [a |-> [a EXCEPT !.parser = Parser_reset(a.parser)], ret |-> FALSE]
  ELSE IF IsDigit(ch)
    THEN [a |-> [a EXCEPT !.parser.target = ch - chr.ZERO,
                          !.parser.state = "NEXT_VALUE"],
          ret |-> FALSE]
  ELSE IF ch > chr.SPACE
    THEN [a |-> IF respond_putc(a, 69).room
                  THEN [respond(a, FMT_BAD_TARGET, <<ch>>)
                          EXCEPT !.parser = Parser_reset(a.parser)]
                  ELSE a,
          ret |-> FALSE]
  ELSE [a |-> a, ret |-> FALSE]

\* case State::TARGET of Parser::parse (app.cpp:165-175).
parse_TARGET(a, ch) ==
  IF ch = chr.ESC
    THEN [a |-> [a EXCEPT !.parser = Parser_reset(a.parser)], ret |-> FALSE]
  ELSE IF IsDigit(ch)
    THEN [a |-> [a EXCEPT !.parser.target = ch - chr.ZERO,
                          !.parser.state = "NEXT_VALUE"],
          ret |-> FALSE]
  ELSE IF ch > chr.SPACE
    THEN [a |-> [respond(a, FMT_BAD_TARGET, <<ch>>)
                   EXCEPT !.parser = Parser_reset(a.parser)],
          ret |-> FALSE]
  ELSE [a |-> a, ret |-> FALSE]

\* A faulty case State::NEXT_VALUE: a byte that is no digit ends the
\* command, as it does in the VALUE state.
parse_NEXT_VALUE_completes(a, ch) ==
  IF ch = chr.ESC
    THEN [a |-> [a EXCEPT !.parser = Parser_reset(a.parser)], ret |-> FALSE]
  ELSE IF IsDigit(ch)
    THEN [a |-> [a EXCEPT !.parser.values[a.parser.index] = ch - chr.ZERO,
                          !.parser.state = "VALUE"],
          ret |-> FALSE]
  ELSE [a |-> a, ret |-> TRUE]

\* A faulty case State::NEXT_VALUE: the first digit of a value moves the
\* parser to VALUE and is not stored.
parse_NEXT_VALUE_skip(a, ch) ==
  IF ch = chr.ESC
    THEN [a |-> [a EXCEPT !.parser = Parser_reset(a.parser)], ret |-> FALSE]
  ELSE IF IsDigit(ch)
    THEN [a |-> [a EXCEPT !.parser.state = "VALUE"], ret |-> FALSE]
  ELSE [a |-> a, ret |-> FALSE]

\* case State::NEXT_VALUE of Parser::parse (app.cpp:176-183).
parse_NEXT_VALUE(a, ch) ==
  IF ch = chr.ESC
    THEN [a |-> [a EXCEPT !.parser = Parser_reset(a.parser)], ret |-> FALSE]
  ELSE IF IsDigit(ch)
    THEN [a |-> [a EXCEPT !.parser.values[a.parser.index] = ch - chr.ZERO,
                          !.parser.state = "VALUE"],
          ret |-> FALSE]
  ELSE [a |-> a, ret |-> FALSE]

\* A faulty case State::VALUE: the slot is a wider integer, the sum is not
\* reduced modulo 2^16.
parse_VALUE_nowrap(a, ch) ==
  LET p == a.parser
  IN  IF ch = chr.ESC
        THEN [a |-> [a EXCEPT !.parser = Parser_reset(p)], ret |-> FALSE]
      ELSE IF IsDigit(ch)
        THEN [a |-> [a EXCEPT !.parser.values[p.index] =
                       p.values[p.index] * 10 + (ch - chr.ZERO)],
              ret |-> FALSE]
      ELSE IF ch \in {chr.COMMA, chr.COLON}
        THEN IF p.index + 1 < NUM_VALUES
               THEN [a |-> [a EXCEPT !.parser.index = p.index + 1,
                                     !.parser.state = "NEXT_VALUE"],
                     ret |-> FALSE]
               ELSE [a |-> [a EXCEPT !.parser.index = p.index + 1],
                     ret |-> TRUE]
      ELSE [a |-> a, ret |-> TRUE]

\* A faulty case State::VALUE: a digit is added to the slot, which is not
\* multiplied by 10 first.
parse_VALUE_noshift(a, ch) ==
  LET p == a.parser
  IN  IF ch = chr.ESC
        THEN [a |-> [a EXCEPT !.parser = Parser_reset(p)], ret |-> FALSE]
      ELSE IF IsDigit(ch)
        THEN [a |-> [a EXCEPT !.parser.values[p.index] =
                       (p.values[p.index] + (ch - chr.ZERO)) % UINT16],
              ret |-> FALSE]
      ELSE IF ch \in {chr.COMMA, chr.COLON}
        THEN IF p.index + 1 < NUM_VALUES
               THEN [a |-> [a EXCEPT !.parser.index = p.index + 1,
                                     !.parser.state = "NEXT_VALUE"],
                     ret |-> FALSE]
               ELSE [a |-> [a EXCEPT !.parser.index = p.index + 1],
                     ret |-> TRUE]
      ELSE [a |-> a, ret |-> TRUE]

\* A faulty case State::VALUE: ESC is not tested for, and ends the command
\* as any other byte that is no digit and no separator does.
parse_VALUE_noesc(a, ch) ==
  LET p == a.parser
  IN  IF IsDigit(ch)
        THEN [a |-> [a EXCEPT !.parser.values[p.index] =
                       (p.values[p.index] * 10 + (ch - chr.ZERO)) % UINT16],
              ret |-> FALSE]
      ELSE IF ch \in {chr.COMMA, chr.COLON}
        THEN IF p.index + 1 < NUM_VALUES
               THEN [a |-> [a EXCEPT !.parser.index = p.index + 1,
                                     !.parser.state = "NEXT_VALUE"],
                     ret |-> FALSE]
               ELSE [a |-> [a EXCEPT !.parser.index = p.index + 1],
                     ret |-> TRUE]
      ELSE [a |-> a, ret |-> TRUE]

\* A faulty case State::VALUE: the index is compared with <=, so that a
\* separator after the last slot starts one more value.
parse_VALUE_leq(a, ch) ==
  LET p == a.parser
  IN  IF ch = chr.ESC
        THEN [a |-> [a EXCEPT !.parser = Parser_reset(p)], ret |-> FALSE]
      ELSE IF IsDigit(ch)
        THEN [a |-> [a EXCEPT !.parser.values[p.index] =
                       (p.values[p.index] * 10 + (ch - chr.ZERO)) % UINT16],
              ret |-> FALSE]
      ELSE IF ch \in {chr.COMMA, chr.COLON}
        THEN IF p.index + 1 <= NUM_VALUES
               THEN [a |-> [a EXCEPT !.parser.index = p.index + 1,
                                     !.parser.state = "NEXT_VALUE"],
                     ret |-> FALSE]
               ELSE [a |-> [a EXCEPT !.parser.index = p.index + 1],
                     ret |-> TRUE]
      ELSE [a |-> a, ret |-> TRUE]

\* case State::VALUE of Parser::parse (app.cpp:184-199).  values[index] is a
\* uint16_t: the sum is reduced modulo 2^16 when it is stored.
parse_VALUE(a, ch) ==
  LET p == a.parser
  IN  IF ch = chr.ESC
        THEN [a |-> [a EXCEPT !.parser = Parser_reset(p)], ret |-> FALSE]
      ELSE IF IsDigit(ch)
        THEN [a |-> [a EXCEPT !.parser.values[p.index] =
                       (p.values[p.index] * 10 + (ch - chr.ZERO)) % UINT16],
              ret |-> FALSE]
      ELSE IF ch \in {chr.COMMA, chr.COLON}
        THEN IF p.index + 1 < NUM_VALUES
               THEN [a |-> [a EXCEPT !.parser.index = p.index + 1,
                                     !.parser.state = "NEXT_VALUE"],
                     ret |-> FALSE]
               ELSE [a |-> [a EXCEPT !.parser.index = p.index + 1],
                     ret |-> TRUE]
      ELSE [a |-> a, ret |-> TRUE]

\* auto Parser::parse(char c) -> bool
Parser_parse(a, ch) ==
  CASE a.parser.state = "COMMAND" -> parse_COMMAND(a, ch)
    [] a.parser.state = "TARGET" -> parse_TARGET(a, ch)
    [] a.parser.state = "NEXT_VALUE" -> parse_NEXT_VALUE(a, ch)
    [] a.parser.state = "VALUE" -> parse_VALUE(a, ch)

(***************************************************************************)
(* Command dispatcher.  `hw` holds what the hardware collaborators answer  *)
(* while the handler runs: l = indicator_.get_state(), v0/v1 =             *)
(* valveN_.get(), mNu/fNu = updated(), mN/fN = value(); m2u is the second  *)
(* call of moisture1_.updated().  console.printf writes to the debug       *)
(* console, not to output_buffer, and is left out.                         *)
(***************************************************************************)
Fresh(updated) == IF updated THEN chr.SPACE ELSE chr.MINUS

Bool(b) == IF b THEN 1 ELSE 0

\* A faulty App::perform_command: target 1 pulses valve 0.
perform_command_valve0(a, hw) ==
  LET p == a.parser
  IN  CASE p.command = "STATUS" ->
             respond(a, FMT_STATUS,
                     <<hw.l, Bool(hw.v0), Bool(hw.v1),
                       Fresh(hw.m0u), hw.m0, Fresh(hw.m1u), hw.m1,
                       Fresh(hw.m2u), 0, Fresh(hw.f0u), hw.f0,
                       Fresh(hw.f1u), hw.f1>>)
        [] p.command = "RESET" ->
             IF p.values[0] = USB_BOOT_CODE
               THEN [a EXCEPT !.calls = Append(@, [call |-> "reset_usb_boot"]),
                              !.boot = "usb_boot"]
             ELSE IF p.values[0] = REBOOT_CODE
               THEN [a EXCEPT !.calls = Append(@, [call |-> "watchdog_reboot",
                                                   arg |-> RESET_DELAY_MS]),
                              !.boot = "reboot_pending"]
             ELSE respond(a, FMT_BAD_RESET, <<p.values[0]>>)
        [] p.command = "VALVE" ->
             IF p.target = 0
               THEN respond([a EXCEPT !.calls = Append(@, [call |-> "valve0_.pulse",
                                                           arg |-> p.values[0]])],
                            FMT_ACK_VALVE0, <<>>)
             ELSE IF p.target = 1
               THEN respond([a EXCEPT !.calls = Append(@, [call |-> "valve0_.pulse",
                                                           arg |-> p.values[0]])],
                            FMT_ACK_VALVE1, <<>>)
             ELSE respond(a, FMT_BAD_VALVE, <<p.target>>)
        [] OTHER -> a

\* auto App::perform_command() -> void
perform_command(a, hw) ==
  LET p == a.parser
  IN  CASE p.command = "STATUS" ->
             respond(a, FMT_STATUS,
                     <<hw.l, Bool(hw.v0), Bool(hw.v1),
                       Fresh(hw.m0u), hw.m0, Fresh(hw.m1u), hw.m1,
                       Fresh(hw.m2u), 0, Fresh(hw.f0u), hw.f0,
                       Fresh(hw.f1u), hw.f1>>)
        [] p.command = "RESET" ->
             IF p.values[0] = USB_BOOT_CODE
               THEN [a EXCEPT !.calls = Append(@, [call |-> "reset_usb_boot"]),
                              !.boot = "usb_boot"]
             ELSE IF p.values[0] = REBOOT_CODE
               THEN [a EXCEPT !.calls = Append(@, [call |-> "watchdog_reboot",
                                                   arg |-> RESET_DELAY_MS]),
                              !.boot = "reboot_pending"]
             ELSE respond(a, FMT_BAD_RESET, <<p.values[0]>>)
        [] p.command = "VALVE" ->
             IF p.target = 0
               THEN respond([a EXCEPT !.calls = Append(@, [call |-> "valve0_.pulse",
                                                           arg |-> p.values[0]])],
                            FMT_ACK_VALVE0, <<>>)
             ELSE IF p.target = 1
               THEN respond([a EXCEPT !.calls = Append(@, [call |-> "valve1_.pulse",
                                                           arg |-> p.values[0]])],
                            FMT_ACK_VALVE1, <<>>)
             ELSE respond(a, FMT_BAD_VALVE, <<p.target>>)
        [] OTHER -> a

\* A faulty App::parse: the parser is not reset after the dispatch.
App_parse_noreset(a, ch, now_us, hw) ==
  Eval(Parser_parse([a EXCEPT !.timeout_ = TIMEOUT_DELAY + now_us], ch),
       LAMBDA r : IF r.ret THEN perform_command(r.a, hw) ELSE r.a)

\* A faulty App::parse: the command is dispatched whatever Parser::parse
\* returned.
App_parse_always(a, ch, now_us, hw) ==
  Eval(Parser_parse([a EXCEPT !.timeout_ = TIMEOUT_DELAY + now_us], ch),
       LAMBDA r :
         Eval(perform_command(r.a, hw),
              LAMBDA a2 :
                IF a2.boot = "usb_boot" \/ ~r.ret THEN a2
                ELSE [a2 EXCEPT !.parser = Parser_reset(a2.parser)]))

\* auto App::parse(char c) -> void.  reset_usb_boot does not return: the
\* parser is not reset after it.
App_parse(a, ch, now_us, hw) ==
  Eval(Parser_parse([a EXCEPT !.timeout_ = TIMEOUT_DELAY + now_us], ch),
       LAMBDA r :
         IF r.ret
           THEN Eval(perform_command(r.a, hw),
                     LAMBDA a2 :
                       IF a2.boot = "usb_boot" THEN a2
                       ELSE [a2 EXCEPT !.parser = Parser_reset(a2.parser)])
           ELSE r.a)

RECURSIVE read_done_from(_, _, _, _, _)
\* The loop of App::read_done from rx_buffer[i] on (rx is 1-based here).
read_done_from(a, rx, i, now_us, hw) ==
  IF i > Len(rx) \/ a.boot = "usb_boot" THEN a
  ELSE Eval(App_parse(a, rx[i], now_us, hw),
            LAMBDA b : read_done_from(b, rx, i + 1, now_us, hw))

\* auto App::read_done(size_t length) -> void, rx the first `length` bytes
\* of rx_buffer.
read_done(a, rx, now_us, hw) == read_done_from(a, rx, 1, now_us, hw)

\* The calls App::periodic makes on its collaborators before it reads the
\* valves (app.cpp:239-245).
PeriodicPolls ==
  << [call |-> "indicator_.periodic"], [call |-> "valve0_.periodic"],
     [call |-> "valve1_.periodic"], [call |-> "moisture0_.periodic"],
     [call |-> "moisture1_.periodic"], [call |-> "flow0_.periodic"],
     [call |-> "flow1_.periodic"] >>

\* A faulty App::periodic: the liveness deadline is tested before the valves.
periodic_timeout_first(a, hw, now_us) ==
  LET state == IF a.timeout_ < now_us THEN "DISCONNECTED"
               ELSE IF hw.v0 /\ hw.v1 THEN "BOTH_VALVES_ON"
               ELSE IF hw.v0 THEN "VALVE0_ON"
               ELSE IF hw.v1 THEN "VALVE1_ON"
               ELSE "CONNECTED"
  IN  [a EXCEPT !.calls = PeriodicPolls \o
                            <<[call |-> "indicator_.set_state", arg |-> state]>>]

\* A faulty App::periodic: the deadline has elapsed as soon as the clock
\* reaches it (timeout_ <= time_us_64()).
periodic_leq(a, hw, now_us) ==
  LET state == IF hw.v0 /\ hw.v1 THEN "BOTH_VALVES_ON"
               ELSE IF hw.v0 THEN "VALVE0_ON"
               ELSE IF hw.v1 THEN "VALVE1_ON"
               ELSE IF a.timeout_ <= now_us THEN "DISCONNECTED"
               ELSE "CONNECTED"
  IN  [a EXCEPT !.calls = PeriodicPolls \o
                            <<[call |-> "indicator_.set_state", arg |-> state]>>]

\* auto App::periodic() -> void.  hw.v0 and hw.v1 are what valve0_.get() and
\* valve1_.get() answer after the polls, now_us what time_us_64() answers.
periodic(a, hw, now_us) ==
  LET state == IF hw.v0 /\ hw.v1 THEN "BOTH_VALVES_ON"
               ELSE IF hw.v0 THEN "VALVE0_ON"
               ELSE IF hw.v1 THEN "VALVE1_ON"
               ELSE IF a.timeout_ < now_us THEN "DISCONNECTED"
               ELSE "CONNECTED"
  IN  [a EXCEPT !.calls = PeriodicPolls \o
                            <<[call |-> "indicator_.set_state", arg |-> state]>>]

\* App::App, after the static initialisation of app.cpp:18-25 and 204.
App_init ==
  [output_buffer |-> [k \in 0..(output_bufferSIZE - 1) |-> 0],
   tx_index |-> 0, tx_sent |-> 0,
   parser |-> Parser_init,
   timeout_ |-> 0,
   boot |-> "run",
   calls |-> <<>>,
   queued |-> <<>>]

(***************************************************************************)
(* State.                                                                  *)
(*   app       the program state (the record described above)              *)
(*   now       time_us_64(), the monotonic clock                           *)
(*   nreads    history: how many packets the transport has delivered       *)
(*   op        the last handler that ran, with its arguments and what it   *)
(*             was observed to do                                          *)
(*   trail     history: what was observed of each byte parsed since the    *)
(*             parser was last in the COMMAND state (the bytes of the      *)
(*             command in progress, or of the one just ended)              *)
(*   contract  history: every App::write_done so far was given at most the *)
(*             length App::write_buffer had returned                       *)
(***************************************************************************)
VARIABLES app, now, nreads, op, trail, contract

vars == <<app, now, nreads, op, trail, contract>>

Init ==
  /\ app = App_init
  /\ now = 0
  /\ nreads = 0
  /\ op = [name |-> "init"]
  /\ trail = <<>>
  /\ contract = TRUE

\* What one call App::parse(ch) was observed to do in state a: the value
\* Parser::parse returned (ret), the parser as perform_command saw it (cmd),
\* the bytes the call appended to the output buffer (put), the calls it made
\* on the hardware (calls), and the parser, the free space, the cursors and
\* the storage before and after it.
Observe(a, ch, now_us, hw) ==
  Eval(<<Parser_parse(a, ch), App_parse(a, ch, now_us, hw)>>, LAMBDA rb :
  LET r == rb[1]
      b == rb[2]
  IN  [c |-> ch,
       before |-> a.parser,
       free |-> output_bufferSIZE - 1 - Occupied(a),
       ret |-> r.ret,
       cmd |-> r.a.parser,
       put |-> SubSeq(b.queued, Len(a.queued) + 1, Len(b.queued)),
       calls |-> SubSeq(b.calls, Len(a.calls) + 1, Len(b.calls)),
       after |-> b.parser,
       boot |-> b.boot,
       tx_sent |-> <<a.tx_sent, b.tx_sent>>,
       tx_index |-> <<a.tx_index, b.tx_index>>,
       output_buffer |-> <<a.output_buffer, b.output_buffer>>,
       content |-> <<Content(a), Content(b)>>,
       timeout_ |-> b.timeout_])

RECURSIVE Steps(_, _, _, _, _)
\* The observations of the calls of App::parse that App::read_done makes.
Steps(a, rx, i, now_us, hw) ==
  IF i > Len(rx) \/ a.boot = "usb_boot" THEN <<>>
  ELSE Eval(App_parse(a, rx[i], now_us, hw),
            LAMBDA b : <<Observe(a, rx[i], now_us, hw)>>
                         \o Steps(b, rx, i + 1, now_us, hw))

\* What the trail keeps of an observation.
Brief(st) ==
  [c |-> st.c, free |-> st.free, ret |-> st.ret, cmd |-> st.cmd,
   put |-> st.put, calls |-> st.calls, state |-> st.after.state]

RECURSIVE Extend(_, _)
\* The trail after further observations: it starts again at each byte that
\* finds the parser in the COMMAND state.
Extend(t, steps) ==
  IF steps = <<>> THEN t
  ELSE Eval(Append(IF t # <<>> /\ t[Len(t)].state # "COMMAND" THEN t ELSE <<>>,
                   Brief(Head(steps))),
            LAMBDA t1 : Extend(t1, Tail(steps)))

(***************************************************************************)
(* Actions.                                                                *)
(***************************************************************************)
\* One call of respond_putc(ch), as the responder makes it.
Put(ch) ==
  /\ app.boot = "run"
  /\ LET r == respond_putc(app, ch)
     IN  /\ app' = r.a
         /\ op' = [name |-> "respond_putc", c |-> ch, ret |-> r.room]
  /\ UNCHANGED <<now, nreads, trail, contract>>

\* The transport reports that `length` bytes were sent: App::write_done.
WriteDone(length) ==
  /\ app.boot # "usb_boot"
  /\ app' = write_done(app, length)
  /\ contract' = (contract /\ length <= write_buffer(app).size)
  /\ op' = [name |-> "write_done", length |-> length,
            span |-> write_buffer(app)]
  /\ UNCHANGED <<now, nreads, trail>>

\* The transport has filled rx_buffer with a packet of the host, the bytes
\* rx, and calls App::read_done(Len(rx)).
ReadDone(rx, hw) ==
  /\ app.boot # "usb_boot"
  /\ nreads < MaxReads
  /\ Len(rx) <= RX_BUFFER_SIZE
  /\ LET a == [app EXCEPT !.calls = <<>>]
     IN  /\ app' = read_done(a, rx, now, hw)
         /\ op' = [name |-> "read_done", rx |-> rx,
                   steps |-> Steps(a, rx, 1, now, hw)]
         /\ trail' = Extend(trail, op'.steps)
  /\ nreads' = nreads + 1
  /\ UNCHANGED <<now, contract>>

\* The main loop calls App::periodic: one tick.
Periodic(hw) ==
  /\ app.boot # "usb_boot"
  /\ app' = periodic([app EXCEPT !.calls = <<>>], hw, now)
  /\ op' = [name |-> "periodic", v0 |-> hw.v0, v1 |-> hw.v1, now |-> now,
            timeout_ |-> app.timeout_, calls |-> app'.calls]
  /\ UNCHANGED <<now, nreads, trail, contract>>

\* The monotonic clock goes on to time t.
Advance(t) ==
  /\ app.boot # "usb_boot"
  /\ t > now
  /\ now' = t
  /\ op' = [name |-> "advance", from |-> now]
  /\ UNCHANGED <<app, nreads, trail, contract>>

\* The watchdog fires RESET_DELAY_MS after watchdog_reboot: the firmware
\* starts again from its initial state.
Reboot ==
  /\ app.boot = "reboot_pending"
  /\ app' = App_init
  /\ now' = 0
  /\ op' = [name |-> "reboot"]
  /\ trail' = <<>>
  /\ contract' = TRUE
  /\ UNCHANGED nreads

(***************************************************************************)
(* Inputs.                                                                 *)
(***************************************************************************)
\* The bytes put into the ring when it is driven directly.
RingBytes == {65, 66}

\* The byte put where only the number of bytes matters.
CountBytes == {65}

\* What the hardware collaborators answer.
HwReadings ==
  { [l |-> 0, v0 |-> FALSE, v1 |-> FALSE, m0u |-> FALSE, m0 |-> 0,
     m1u |-> FALSE, m1 |-> 0, m2u |-> FALSE, f0u |-> FALSE, f0 |-> 0,
     f1u |-> FALSE, f1 |-> 0],
    [l |-> 3, v0 |-> FALSE, v1 |-> TRUE, m0u |-> TRUE, m0 |-> 512,
     m1u |-> TRUE, m1 |-> 7, m2u |-> FALSE, f0u |-> TRUE, f0 |-> 12,
     f1u |-> FALSE, f1 |-> 0] }

\* A packet of one byte, for each byte the parser tells apart: S s R r V v, a
\* letter that is no command ('X'), a digit ('7'), the separators ',' and
\* ':', ESC, space and CR.
ByteLines ==
  { <<b>> : b \in {83, 115, 82, 114, 86, 118, 88, 55, 44, 58, 27, 32, 13} }

\* Beginnings of commands, which leave the parser in each of its states:
\* "V1" "V17" "R4" "R4," "R4,2", and "XV17", which queues an error before.
PrefixLines ==
  { <<86, 49>>, <<86, 49, 55>>, <<82, 52>>, <<82, 52, 44>>,
    <<82, 52, 44, 50>>, <<88, 86, 49, 55>> }

\* "R5511\r", after which the firmware is left for the USB boot loader.
UsbBootLines == { <<82, 53, 53, 49, 49, 13>> }

ParseLines == ByteLines \cup PrefixLines \cup UsbBootLines

\* Whole commands: "S" "X" "V0100,\r" "V0100\r" "V17,3:" "R42\r" "R5511\r"
\* "R1033\r" "R71047\r" "R66569\r", and two in one packet: "V51\rV142\r".
CommandLines ==
  { <<83>>, <<88>>,
    <<86, 48, 49, 48, 48, 44, 13>>, <<86, 48, 49, 48, 48, 13>>,
    <<86, 49, 55, 44, 51, 58>>, <<86, 53, 49, 13, 86, 49, 52, 50, 13>>,
    <<82, 52, 50, 13>>,
    <<82, 53, 53, 49, 49, 13>>, <<82, 49, 48, 51, 51, 13>>,
    <<82, 55, 49, 48, 52, 55, 13>>, <<82, 54, 54, 53, 54, 57, 13>> }

(***************************************************************************)
(* SpecRing: the ring driven through its three operations, put, pending    *)
(* and advance, the transport advancing no more than the span it was       *)
(* handed (the bytes it actually sent).                                    *)
(***************************************************************************)
NextRing ==
  \/ \E ch \in RingBytes : Put(ch)
  \/ \E length \in 0..write_buffer(app).size : WriteDone(length)

SpecRing == Init /\ [][NextRing]_vars

(***************************************************************************)
(* SpecRingAny: the same, with advance given any count from 0 to the       *)
(* capacity, whatever pending() returned.  Only byte counts matter here,   *)
(* so one byte value is put.                                               *)
(***************************************************************************)
NextRingAny ==
  \/ \E ch \in CountBytes : Put(ch)
  \/ \E length \in 0..output_bufferSIZE : WriteDone(length)

SpecRingAny == Init /\ [][NextRingAny]_vars

(***************************************************************************)
(* Spec: the parser fed byte by byte.  The packets are single bytes and     *)
(* beginnings of commands; the transport sends one byte of the span it is  *)
(* handed, or all of it (SpecRing has every length).                       *)
(***************************************************************************)
\* What the transport sends of a non-empty span.
SentLengths == { n \in {1, write_buffer(app).size} : n <= write_buffer(app).size }

Next ==
  \/ \E rx \in ParseLines, hw \in HwReadings : ReadDone(rx, hw)
  \/ \E length \in SentLengths : WriteDone(length)

Spec == Init /\ [][Next]_vars

(***************************************************************************)
(* SpecCmd: the same with whole commands, both reset codes among them.     *)
(***************************************************************************)
NextCmd ==
  \/ \E rx \in CommandLines, hw \in HwReadings : ReadDone(rx, hw)
  \/ \E length \in SentLengths : WriteDone(length)
  \/ Reboot

SpecCmd == Init /\ [][NextCmd]_vars

(***************************************************************************)
(* SpecTick: bytes and ticks as the clock goes on.  The clock is taken to  *)
(* its first microseconds, to the liveness deadline and to the microsecond *)
(* after it.                                                               *)
(***************************************************************************)
\* What the two valves answer in a tick.
ValveReadings == [v0 : BOOLEAN, v1 : BOOLEAN]

\* The last of the first microseconds the clock is taken to.
EarlyTime == 1

ClockTimes == (1..EarlyTime) \cup {app.timeout_, app.timeout_ + 1}

\* Packets: "X" "VX" "V17,3:" "R4" ",2\r" "S" and ESC with a space.
TickLines ==
  { <<88>>, <<86, 88>>, <<86, 49, 55, 44, 51, 58>>, <<82, 52>>,
    <<44, 50, 13>>, <<83>>, <<27, 32>> }

NextTick ==
  \/ \E rx \in TickLines, hw \in HwReadings : ReadDone(rx, hw)
  \/ \E hw \in ValveReadings : Periodic(hw)
  \/ \E t \in ClockTimes : Advance(t)

SpecTick == Init /\ [][NextTick]_vars

(***************************************************************************)
(* SpecSync: the parser taken to each of its states by the beginning of a  *)
(* command, and then fed ESC and 'S', or a byte that is no digit.          *)
(***************************************************************************)
\* "V" "V1" "V17" "V17," "V17,3" "R" "R4" "R4," "R4,2".
SyncPrefixes ==
  { <<86>>, <<86, 49>>, <<86, 49, 55>>, <<86, 49, 55, 44>>,
    <<86, 49, 55, 44, 51>>, <<82>>, <<82, 52>>, <<82, 52, 44>>,
    <<82, 52, 44, 50>> }

\* ESC then 'S'; and the bytes 'S', CR, LF, 'X', ',', ':' and space.
SyncLines ==
  { <<27, 83>> } \cup { <<b>> : b \in {83, 13, 10, 88, 44, 58, 32} }

NextSync ==
  \E rx \in SyncPrefixes \cup SyncLines, hw \in HwReadings : ReadDone(rx, hw)

SpecSync == Init /\ [][NextSync]_vars

(***************************************************************************)
(* The output ring buffer: C1 (under SpecRingAny), C2, C4 (under SpecRing). *)
(***************************************************************************)
\* The ring is wrapped: the queued bytes run over the end of the storage.
Wrapped(a) == a.tx_index < a.tx_sent

\* C1 as stated: for every sequence of put and advance(n) calls, n any count
\* from 0 to the capacity, the occupied byte count never exceeds C-1 and
\* pending() never reports more bytes than were put and not yet advanced.
C1_AnyAdvance ==
  /\ Occupied(app) <= output_bufferSIZE - 1
  /\ write_buffer(app).size <= Len(app.queued)

\* C1, amended: as long as every advance(n) was given n no greater than the
\* length pending() returned just before it, the bytes put and not yet
\* advanced are exactly the occupied bytes (tx_index - tx_sent) mod C, they
\* never exceed C-1, and pending() never reports more than them.
C1_PendingWithinQueued ==
  contract =>
    /\ Occupied(app) = Len(app.queued)
    /\ Len(app.queued) <= output_bufferSIZE - 1
    /\ write_buffer(app).size <= Len(app.queued)

\* C1 witness: a put filled the ring to C-1 bytes that wrap round the end of
\* the storage, after advances within the contract; pending() reports fewer
\* bytes than are queued.
C1_Witness ==
  /\ contract
  /\ op.name = "respond_putc" /\ op.ret
  /\ Wrapped(app)
  /\ Len(app.queued) = output_bufferSIZE - 1
  /\ write_buffer(app).size < Len(app.queued)

\* C2: put returns false and changes nothing when (tx_index + 1) mod C =
\* tx_sent; otherwise it stores the byte at the old tx_index, advances
\* tx_index by one with wraparound, leaves tx_sent alone and returns true.
\* Either way the bytes queued before it are still queued, unchanged.
C2_PutNeverOverwrites ==
  [][op'.name = "respond_putc" /\ op' # op =>
       IF (app.tx_index + 1) % output_bufferSIZE = app.tx_sent
         THEN /\ op'.ret = FALSE
              /\ app'.tx_index = app.tx_index
              /\ app'.tx_sent = app.tx_sent
              /\ app'.output_buffer = app.output_buffer
         ELSE /\ op'.ret = TRUE
              /\ app'.output_buffer =
                   [app.output_buffer EXCEPT ![app.tx_index] = op'.c]
              /\ app'.tx_index = (app.tx_index + 1) % output_bufferSIZE
              /\ app'.tx_sent = app.tx_sent
              /\ Content(app') = Append(Content(app), op'.c)]_vars

\* C2 witness: a put was refused on a full, wrapped ring.
C2_Witness ==
  /\ op.name = "respond_putc" /\ ~op.ret
  /\ (app.tx_index + 1) % output_bufferSIZE = app.tx_sent
  /\ Wrapped(app)
  /\ contract /\ Len(app.queued) = output_bufferSIZE - 1

\* One round of the transport: pending(), then advance of all of its span.
DrainRound(a) == write_done(a, write_buffer(a).size)

\* C4: the span pending() returns starts at the drain cursor and ends at or
\* before the end of the storage; when the queued bytes wrap, it is the
\* bytes up to the end of the storage, and after advance of that length a
\* second pending() returns the rest from index 0; two pending/advance
\* rounds empty the ring, and (advances within the contract) the two spans
\* are the queued bytes in order.
C4_SpanNeverCrossesEnd ==
  LET w  == write_buffer(app)
      a1 == DrainRound(app)
      w1 == write_buffer(a1)
      a2 == DrainRound(a1)
  IN  /\ w.start = app.tx_sent
      /\ w.start + w.size <= output_bufferSIZE
      /\ Wrapped(app) =>
           /\ w.size = output_bufferSIZE - app.tx_sent
           /\ w1.start = 0
           /\ w1.size = app.tx_index
           /\ w.size + w1.size = Occupied(app)
      /\ ~Wrapped(app) => w.size = Occupied(app)
      /\ a2.tx_sent = a2.tx_index
      /\ write_buffer(a2).size = 0
      /\ contract => Span(app) \o Span(a1) = app.queued

\* C4 witness: the transport advanced the whole of a span that ended at the
\* end of the storage, and the rest of the queued bytes now starts at 0.
C4_Witness ==
  /\ contract
  /\ op.name = "write_done"
  /\ op.length = op.span.size
  /\ op.span.start > 0
  /\ op.span.start + op.span.size = output_bufferSIZE
  /\ app.tx_sent = 0
  /\ write_buffer(app).size = Len(app.queued)
  /\ Len(app.queued) > 1

(***************************************************************************)
(* The responder, the parser and the dispatcher: C3, C6, C7, C8 (under     *)
(* SpecCmd), C5, C9, C10 (under Spec).                                     *)
(***************************************************************************)
\* The observations of the bytes the last App::read_done parsed.
LastSteps == IF op.name = "read_done" THEN op.steps ELSE <<>>

\* The bytes of the trail.
TrailBytes == [k \in 1..Len(trail) |-> trail[k].c]

CRLF == <<chr.CR, chr.LF>>

CommandLetters == {chr.s, chr.S, chr.r, chr.R, chr.v, chr.V}

RECURSIVE Rendered(_, _, _)
\* A format string rendered in full, whatever room there is: the text the
\* caller of respond asks for.
Rendered(format, i, args) ==
  IF i > Len(format) THEN <<>>
  ELSE IF format[i] = chr.PERCENT
    THEN (IF format[i + 1] = chr.c THEN <<Head(args)>>
          ELSE from_signed_int(Head(args)))
           \o Rendered(format, i + 2, Tail(args))
    ELSE <<format[i]>> \o Rendered(format, i + 1, args)

\* The status response for what the hardware answers.
StatusText(hw) ==
  Rendered(FMT_STATUS, 1,
           <<hw.l, Bool(hw.v0), Bool(hw.v1), Fresh(hw.m0u), hw.m0,
             Fresh(hw.m1u), hw.m1, Fresh(hw.m2u), 0, Fresh(hw.f0u), hw.f0,
             Fresh(hw.f1u), hw.f1>>)

\* "Ec'<byte>'\r\n" and "Et'<byte>'\r\n"
BadCommandText(ch) == <<69, 99, chr.QUOTE, ch, chr.QUOTE>> \o CRLF

BadTargetText(ch) == <<69, 116, chr.QUOTE, ch, chr.QUOTE>> \o CRLF

\* "Er<value>\r\n", "Ev<target>\r\n" and "AV<t>\r\n"
BadResetText(value) == <<69, 114>> \o from_unsigned_int(value) \o CRLF

BadValveText(target) == <<69, 118>> \o from_unsigned_int(target) \o CRLF

AckValveText(t) == <<65, 86, chr.ZERO + t>> \o CRLF

\* The response the byte of observation st asks for, in full (none: <<>>).
Response(st, hw) ==
  IF st.ret
    THEN CASE st.cmd.command = "STATUS" -> StatusText(hw)
           [] st.cmd.command = "RESET" ->
                IF st.cmd.values[0] \in {USB_BOOT_CODE, REBOOT_CODE} THEN <<>>
                ELSE BadResetText(st.cmd.values[0])
           [] st.cmd.command = "VALVE" ->
                IF st.cmd.target \in {0, 1} THEN AckValveText(st.cmd.target)
                ELSE BadValveText(st.cmd.target)
           [] OTHER -> <<>>
  ELSE IF st.before.state = "COMMAND" /\ st.c > chr.SPACE
          /\ st.c \notin CommandLetters
    THEN BadCommandText(st.c)
  ELSE IF st.before.state = "TARGET" /\ st.c > chr.SPACE /\ ~IsDigit(st.c)
    THEN BadTargetText(st.c)
  ELSE <<>>

\* The calls on the hardware a completed command makes, response or none.
PulseCalls(st) ==
  IF st.ret /\ st.cmd.command = "VALVE" /\ st.cmd.target = 0
    THEN <<[call |-> "valve0_.pulse", arg |-> st.cmd.values[0]]>>
  ELSE IF st.ret /\ st.cmd.command = "VALVE" /\ st.cmd.target = 1
    THEN <<[call |-> "valve1_.pulse", arg |-> st.cmd.values[0]]>>
  ELSE <<>>

\* C3: a response whose rendered length L exceeds the free space F is cut
\* after exactly its first F bytes; the drain cursor and the bytes queued
\* before it are unchanged, and the parser and the dispatcher go on as if it
\* had fitted (the parser is reset, the valve is pulsed).
C3_TruncatedAtFreeSpace ==
  \A k \in DOMAIN LastSteps :
    LET st == LastSteps[k]
    IN  \E hw \in HwReadings :
          Len(Response(st, hw)) > st.free =>
            /\ st.put = Take(Response(st, hw), st.free)
            /\ Len(st.put) = st.free
            /\ st.tx_sent[2] = st.tx_sent[1]
            /\ st.content[2] = st.content[1] \o st.put
            /\ st.after = Parser_init
            /\ st.calls = PulseCalls(st)

\* C3 witness: a valve command was acknowledged with 0 < F < L bytes free:
\* the valve was pulsed and the acknowledgement cut after F bytes, behind
\* bytes still queued.
C3_Witness ==
  \E k \in DOMAIN LastSteps :
    LET st == LastSteps[k]
    IN  /\ st.ret /\ st.cmd.command = "VALVE" /\ st.cmd.target = 0
        /\ st.free > 0 /\ st.free < Len(AckValveText(0))
        /\ st.put = Take(AckValveText(0), st.free)
        /\ st.calls = PulseCalls(st)
        /\ st.content[1] # <<>>
        /\ st.content[2] = st.content[1] \o st.put

\* C5: Parser::parse returns true in exactly two cases: in state COMMAND on
\* 's' or 'S' (the command is then STATUS), and in state VALUE on a byte that
\* is neither ESC nor a digit and is either no separator or a separator met
\* while index is the last slot.  A slot no digit was written to is 0.
C5_CompletesExactlyWhen ==
  \A k \in DOMAIN LastSteps :
    LET st == LastSteps[k]
        b  == st.before
    IN  /\ st.ret <=>
             \/ b.state = "COMMAND" /\ st.c \in {chr.s, chr.S}
             \/ /\ b.state = "VALUE"
                /\ st.c # chr.ESC
                /\ ~IsDigit(st.c)
                /\ \/ st.c \notin {chr.COMMA, chr.COLON}
                   \/ b.index = NUM_VALUES - 1
        /\ st.ret /\ b.state = "COMMAND" => st.cmd.command = "STATUS"
        /\ st.ret => \A n \in 0..(NUM_VALUES - 1) :
                       n > b.index => st.cmd.values[n] = 0

\* C5 witness: a command with one value was ended by a byte that is no
\* separator while index was 0: parse returned true and slot 1 is 0.
C5_Witness ==
  \E k \in DOMAIN LastSteps :
    LET st == LastSteps[k]
    IN  /\ st.ret /\ st.before.state = "VALUE" /\ st.before.index = 0
        /\ st.c = chr.CR
        /\ st.cmd.values[0] > 0 /\ st.cmd.values[1] = 0

\* C9 as stated: a bad command byte queues "Ec'<byte>'\r\n", a bad target
\* byte queues "Et'<byte>'\r\n", the parser is reset, parse returns false and
\* nothing is dispatched; a byte <= space in state COMMAND does nothing.
C9_ErrorQueuedWhole ==
  \A k \in DOMAIN LastSteps :
    LET st == LastSteps[k]
        b  == st.before
    IN  /\ b.state = "COMMAND" /\ st.c > chr.SPACE
           /\ st.c \notin CommandLetters =>
             /\ st.put = BadCommandText(st.c)
             /\ st.after = Parser_init /\ ~st.ret /\ st.calls = <<>>
        /\ b.state = "TARGET" /\ st.c > chr.SPACE /\ ~IsDigit(st.c) =>
             /\ st.put = BadTargetText(st.c)
             /\ st.after = Parser_init /\ ~st.ret /\ st.calls = <<>>
        /\ b.state = "COMMAND" /\ st.c <= chr.SPACE =>
             /\ st.put = <<>> /\ st.after = b /\ ~st.ret /\ st.calls = <<>>

\* C9, amended: as C9, the error response being queued as far as the free
\* space F of the output buffer allows: its first Min(F, L) bytes.
C9_ErrorQueuedAsFits ==
  \A k \in DOMAIN LastSteps :
    LET st == LastSteps[k]
        b  == st.before
    IN  /\ b.state = "COMMAND" /\ st.c > chr.SPACE
           /\ st.c \notin CommandLetters =>
             /\ st.put = Take(BadCommandText(st.c), st.free)
             /\ st.after = Parser_init /\ ~st.ret /\ st.calls = <<>>
        /\ b.state = "TARGET" /\ st.c > chr.SPACE /\ ~IsDigit(st.c) =>
             /\ st.put = Take(BadTargetText(st.c), st.free)
             /\ st.after = Parser_init /\ ~st.ret /\ st.calls = <<>>
        /\ b.state = "COMMAND" /\ st.c <= chr.SPACE =>
             /\ st.put = <<>> /\ st.after = b /\ ~st.ret /\ st.calls = <<>>

\* C9 witness: a bad target byte after the letter of a valve command: the
\* whole of "Et'<byte>'\r\n" was queued and the parser reset.
C9_Witness ==
  \E k \in DOMAIN LastSteps :
    LET st == LastSteps[k]
    IN  /\ st.before.state = "TARGET" /\ st.before.command = "VALVE"
        /\ st.c > chr.SPACE /\ ~IsDigit(st.c)
        /\ st.put = BadTargetText(st.c)
        /\ st.after = Parser_init /\ ~st.ret

\* C10: an ESC in state TARGET, NEXT_VALUE or VALUE resets the parser, is not
\* dispatched, and leaves the output buffer, cursors and bytes, as it was.
C10_EscapeAborts ==
  \A k \in DOMAIN LastSteps :
    LET st == LastSteps[k]
    IN  st.c = chr.ESC /\ st.before.state \in {"TARGET", "NEXT_VALUE", "VALUE"} =>
          /\ st.after = Parser_init
          /\ ~st.ret /\ st.calls = <<>>
          /\ st.put = <<>>
          /\ st.tx_index[2] = st.tx_index[1]
          /\ st.tx_sent[2] = st.tx_sent[1]
          /\ st.output_buffer[2] = st.output_buffer[1]

\* C10 witness: an ESC met in state VALUE with a target and a value that are
\* not 0 and bytes queued: the parser is reset and the buffer is as it was.
C10_Witness ==
  \E k \in DOMAIN LastSteps :
    LET st == LastSteps[k]
    IN  /\ st.c = chr.ESC /\ st.before.state = "VALUE"
        /\ st.before.target > 0 /\ st.before.values[0] > 0
        /\ st.after = Parser_init
        /\ st.content[1] # <<>> /\ st.content[2] = st.content[1]

\* A byte that ends a value and is no separator.
IsTerminator(ch) ==
  ch # chr.ESC /\ ~IsDigit(ch) /\ ch \notin {chr.COMMA, chr.COLON}

AllDigits(bytes) == \A k \in DOMAIN bytes : IsDigit(bytes[k])

RECURSIVE DecValue(_)
\* The number that decimal digits write, as an unbounded integer.
DecValue(digits) ==
  IF digits = <<>> THEN 0
  ELSE DecValue(SubSeq(digits, 1, Len(digits) - 1)) * 10
         + (digits[Len(digits)] - chr.ZERO)

\* Observation st is the dispatch of VALVE with target t and values [v, 0]:
\* valve t is pulsed for v and "AV<t>\r\n" is queued.
ValveDispatched(st, t, v) ==
  /\ st.ret
  /\ st.cmd.command = "VALVE" /\ st.cmd.target = t
  /\ st.cmd.values = [n \in 0..(NUM_VALUES - 1) |-> IF n = 0 THEN v ELSE 0]
  /\ st.calls = <<[call |-> IF t = 0 THEN "valve0_.pulse" ELSE "valve1_.pulse",
                   arg |-> v]>>
  /\ st.put = AckValveText(t)

\* C6 as stated: from a reset parser and a buffer with room, 'V', a target
\* digit t in {0,1}, the digits of v, a ',' and then a terminator dispatch
\* VALVE with target t and values [v, 0] and queue "AV<t>\r\n".
C6_CommaThenTerminator ==
  LET b == TrailBytes
      n == Len(b)
  IN  /\ n >= 5
      /\ b[1] \in {chr.v, chr.V} /\ b[2] \in {chr.ZERO, chr.ZERO + 1}
      /\ AllDigits(SubSeq(b, 3, n - 2))
      /\ b[n - 1] = chr.COMMA /\ IsTerminator(b[n])
      /\ trail[n].free >= Len(AckValveText(0))
      => ValveDispatched(trail[n], b[2] - chr.ZERO,
                         DecValue(SubSeq(b, 3, n - 2)))

\* C6, amended: it is without the ',' that the terminator dispatches: 'V', a
\* target digit t in {0,1}, the digits of v and then a terminator dispatch
\* VALVE with target t and values [v mod 2^16, 0] and queue "AV<t>\r\n".
\* After a ',' the parser waits, in state NEXT_VALUE, for the digits of the
\* second value: a terminator there is ignored and nothing is dispatched.
C6_TerminatorAfterValue ==
  LET b == TrailBytes
      n == Len(b)
  IN  /\ /\ n >= 4
         /\ b[1] \in {chr.v, chr.V} /\ b[2] \in {chr.ZERO, chr.ZERO + 1}
         /\ AllDigits(SubSeq(b, 3, n - 1))
         /\ IsTerminator(b[n])
         /\ trail[n].free >= Len(AckValveText(0))
         => ValveDispatched(trail[n], b[2] - chr.ZERO,
                            DecValue(SubSeq(b, 3, n - 1)) % UINT16)
      /\ /\ n >= 5
         /\ b[1] \in {chr.v, chr.V} /\ b[2] \in {chr.ZERO, chr.ZERO + 1}
         /\ AllDigits(SubSeq(b, 3, n - 2))
         /\ b[n - 1] = chr.COMMA /\ IsTerminator(b[n])
         => /\ ~trail[n].ret /\ trail[n].state = "NEXT_VALUE"
            /\ trail[n].calls = <<>> /\ trail[n].put = <<>>

\* C6 witness: the bytes "V0100" and CR were fed: VALVE was dispatched with
\* target 0 and values [100, 0], and "AV0\r\n" queued.
C6_Witness ==
  /\ TrailBytes = <<chr.V, 48, 49, 48, 48, chr.CR>>
  /\ ValveDispatched(trail[6], 0, 100)
  /\ trail[6].put = <<65, 86, 48, 13, 10>>

\* C7 as stated: for 'R', the digits of a number n and a terminator, the
\* firmware-update path is entered only if n = 5511, the delayed reboot only
\* if n = 1033, and for every other n "Er<n>\r\n" is queued and no reset path
\* is taken.
C7_OnlyTwoCodes ==
  LET b == TrailBytes
      n == Len(b)
  IN  /\ n >= 3
      /\ b[1] \in {chr.r, chr.R}
      /\ AllDigits(SubSeq(b, 2, n - 1))
      /\ IsTerminator(b[n])
      => LET number == DecValue(SubSeq(b, 2, n - 1))
             st == trail[n]
         IN  /\ (\E k \in DOMAIN st.calls : st.calls[k].call = "reset_usb_boot")
                  => number = USB_BOOT_CODE
             /\ (\E k \in DOMAIN st.calls : st.calls[k].call = "watchdog_reboot")
                  => number = REBOOT_CODE
             /\ number \notin {USB_BOOT_CODE, REBOOT_CODE} =>
                  st.calls = <<>> /\ st.put = BadResetText(number)

\* C7, amended: the number counts modulo 2^16, the width of a value slot:
\* for 'R', the digits of n and a terminator, RESET is dispatched with
\* values[0] = n mod 65536; the firmware-update path is entered exactly when
\* that is 5511, the delayed reboot is triggered exactly when it is 1033, and
\* otherwise no reset path is taken and "Er<n mod 65536>\r\n" is queued, as
\* far as the free space of the output buffer allows.
C7_OnlyTwoCodesMod ==
  LET b == TrailBytes
      n == Len(b)
  IN  /\ n >= 3
      /\ b[1] \in {chr.r, chr.R}
      /\ AllDigits(SubSeq(b, 2, n - 1))
      /\ IsTerminator(b[n])
      => LET value == DecValue(SubSeq(b, 2, n - 1)) % UINT16
             st == trail[n]
         IN  /\ st.ret /\ st.cmd.command = "RESET"
             /\ st.cmd.values[0] = value
             /\ value = USB_BOOT_CODE =>
                  st.calls = <<[call |-> "reset_usb_boot"]>> /\ st.put = <<>>
             /\ value = REBOOT_CODE =>
                  /\ st.calls = <<[call |-> "watchdog_reboot",
                                   arg |-> RESET_DELAY_MS]>>
                  /\ st.put = <<>>
             /\ value \notin {USB_BOOT_CODE, REBOOT_CODE} =>
                  /\ st.calls = <<>>
                  /\ st.put = Take(BadResetText(value), st.free)

\* C7 witness: "R66569" and CR were fed, 66569 = 65536 + 1033: the delayed
\* reboot was triggered.
C7_Witness ==
  /\ TrailBytes = <<chr.R, 54, 54, 53, 54, 57, chr.CR>>
  /\ trail[7].cmd.values[0] = REBOOT_CODE
  /\ trail[7].calls = <<[call |-> "watchdog_reboot", arg |-> RESET_DELAY_MS]>>
  /\ app.boot = "reboot_pending"

\* C8 as stated: RESET dispatched with values[0] not in {5511, 1033} queues
\* "Er<values[0]>\r\n" and invokes no reset collaborator; VALVE dispatched
\* with target not in {0, 1} queues "Ev<target>\r\n" and pulses no valve;
\* with target 0 or 1 only that valve is pulsed, for values[0].
C8_ErrorQueuedWhole ==
  \A k \in DOMAIN LastSteps :
    LET st == LastSteps[k]
    IN  st.ret =>
          /\ st.cmd.command = "RESET"
             /\ st.cmd.values[0] \notin {USB_BOOT_CODE, REBOOT_CODE} =>
               st.put = BadResetText(st.cmd.values[0]) /\ st.calls = <<>>
          /\ st.cmd.command = "VALVE" /\ st.cmd.target \notin {0, 1} =>
               st.put = BadValveText(st.cmd.target) /\ st.calls = <<>>
          /\ st.cmd.command = "VALVE" /\ st.cmd.target \in {0, 1} =>
               st.calls = PulseCalls(st)

\* C8, amended: as C8, the error response being queued as far as the free
\* space F of the output buffer allows: its first Min(F, L) bytes.
C8_ErrorQueuedAsFits ==
  \A k \in DOMAIN LastSteps :
    LET st == LastSteps[k]
    IN  st.ret =>
          /\ st.cmd.command = "RESET"
             /\ st.cmd.values[0] \notin {USB_BOOT_CODE, REBOOT_CODE} =>
               /\ st.put = Take(BadResetText(st.cmd.values[0]), st.free)
               /\ st.calls = <<>>
          /\ st.cmd.command = "VALVE" /\ st.cmd.target \notin {0, 1} =>
               /\ st.put = Take(BadValveText(st.cmd.target), st.free)
               /\ st.calls = <<>>
          /\ st.cmd.command = "VALVE" /\ st.cmd.target \in {0, 1} =>
               st.calls = PulseCalls(st)

\* C8 witness: VALVE was dispatched with target 5: "Ev5\r\n" was queued whole
\* and no valve pulsed.
C8_Witness ==
  \E k \in DOMAIN LastSteps :
    LET st == LastSteps[k]
    IN  /\ st.ret /\ st.cmd.command = "VALVE" /\ st.cmd.target = 5
        /\ st.put = <<69, 118, 53, 13, 10>>
        /\ st.calls = <<>>

(***************************************************************************)
(* The parser between bytes: C11 (under Spec).                             *)
(***************************************************************************)
\* The byte of observation st ended a command, raised a protocol error or
\* was an ESC cancelling a command.
Ended(st) ==
  \/ st.ret
  \/ st.before.state = "COMMAND" /\ st.c > chr.SPACE /\ st.c \notin CommandLetters
  \/ st.before.state = "TARGET" /\ st.c > chr.SPACE /\ ~IsDigit(st.c)
  \/ st.before.state \in {"TARGET", "NEXT_VALUE", "VALUE"} /\ st.c = chr.ESC

\* C11: Parser::reset yields {COMMAND, NONE, target 0, index 0, values
\* [0,0]} from every parser state, and after App::parse has processed a
\* byte that completed a command, raised a protocol error or was an ESC
\* cancel, the parser is in that state when the next byte is examined (after
\* reset_usb_boot, which does not return, no byte is examined).
C11_ResetAfterEveryEnd ==
  /\ Parser_reset(app.parser) = Parser_init
  /\ \A k \in DOMAIN LastSteps :
       LET st == LastSteps[k]
       IN  /\ Parser_reset(st.before) = Parser_init
           /\ Parser_reset(st.cmd) = Parser_init
           /\ Ended(st) =>
                /\ st.boot # "usb_boot" => st.after = Parser_init
                /\ k + 1 \in DOMAIN LastSteps =>
                     LastSteps[k + 1].before = Parser_init
                /\ k = Len(LastSteps) /\ st.boot # "usb_boot" =>
                     app.parser = Parser_init

\* C11 witness: a byte completed a command whose values were not 0 and whose
\* index was not 0:
\* the parser was reset after the dispatch.
C11_Witness ==
  \E k \in DOMAIN LastSteps :
    LET st == LastSteps[k]
    IN  /\ st.ret /\ st.cmd.values[0] > 0 /\ st.cmd.values[1] > 0
        /\ st.cmd.index > 0
        /\ st.after = Parser_init /\ app.parser = Parser_init

(***************************************************************************)
(* The parser and its surroundings: C12 (under SpecTick).                  *)
(***************************************************************************)
RECURSIVE PureRun(_, _, _)
\* What Parser::parse returns and leaves in the parser for each of the
\* bytes from `bytes[i]` on, the parser being p before, the output buffer
\* empty, the clock and the deadline 0: the surroundings of App_init.  After
\* a byte for which it returns true the parser is reset.
PureRun(p, bytes, i) ==
  IF i > Len(bytes) THEN <<>>
  ELSE Eval(Parser_parse([App_init EXCEPT !.parser = p], bytes[i]),
            LAMBDA r :
              <<[ret |-> r.ret, cmd |-> r.a.parser]>>
                \o PureRun(IF r.ret THEN Parser_init ELSE r.a.parser,
                           bytes, i + 1))

\* C12: the values Parser::parse returned for the bytes fed since the parser
\* was last reset, and the command, target, index and values it left, are
\* those that the same bytes give from a reset parser with the output buffer
\* empty and the clock at 0: they are a function of the bytes alone, whatever
\* the cursors and the fullness of the output buffer, the clock, the
\* deadline and the answers of the hardware.
C12_ParserPureInBytes ==
  LET run == PureRun(Parser_init, TrailBytes, 1)
  IN  \A k \in DOMAIN trail :
        /\ trail[k].ret = run[k].ret
        /\ trail[k].cmd = run[k].cmd

\* C12 witness: "VX" was parsed later than time 0 with the output buffer
\* full and not drained, so that nothing of the error response was queued:
\* the parser went to TARGET and was reset as in the empty surroundings.
C12_Witness ==
  /\ TrailBytes = <<chr.V, 88>>
  /\ now > 0 /\ app.timeout_ = TIMEOUT_DELAY + now
  /\ trail[1].free = 0 /\ app.tx_index # 0
  /\ trail[1].cmd.state = "TARGET"
  /\ trail[2].put = <<>> /\ ~trail[2].ret /\ trail[2].state = "COMMAND"
  /\ app.parser = Parser_init

(***************************************************************************)
(* The indicator and the liveness deadline: C14, C15 (under SpecTick).     *)
(***************************************************************************)
\* The states App::periodic set the indicator to, in the tick recorded in o.
StatesSet(o) ==
  [k \in { j \in DOMAIN o.calls : o.calls[j].call = "indicator_.set_state" }
     |-> o.calls[k].arg]

\* The tick recorded in o set the indicator once, to state.
SetTo(o, state) ==
  \E k \in DOMAIN o.calls : StatesSet(o) = (k :> state)

\* C14: every tick sets the indicator by strict priority: BOTH_VALVES_ON if
\* both valves are active, else VALVE0_ON if valve 0 is, else VALVE1_ON if
\* valve 1 is, else DISCONNECTED if the deadline has elapsed, else
\* CONNECTED; with a valve active it is never CONNECTED or DISCONNECTED.
C14_IndicatorPriority ==
  op.name = "periodic" =>
    /\ SetTo(op, IF op.v0 /\ op.v1 THEN "BOTH_VALVES_ON"
                 ELSE IF op.v0 THEN "VALVE0_ON"
                 ELSE IF op.v1 THEN "VALVE1_ON"
                 ELSE IF op.timeout_ < op.now THEN "DISCONNECTED"
                 ELSE "CONNECTED")
    /\ op.v0 \/ op.v1 =>
         ~SetTo(op, "CONNECTED") /\ ~SetTo(op, "DISCONNECTED")

\* C14 witness: a tick after the deadline had elapsed, with valve 1 alone
\* active: the indicator was set to VALVE1_ON.
C14_Witness ==
  /\ op.name = "periodic" /\ ~op.v0 /\ op.v1
  /\ nreads > 0 /\ op.timeout_ < op.now
  /\ SetTo(op, "VALVE1_ON")

\* C15: every byte App::parse consumes sets the deadline to now + 10 s, and
\* nothing else changes it; a tick with no valve active then sets the
\* indicator to CONNECTED at any time up to the deadline and to DISCONNECTED
\* after it.
C15_DeadlineRefreshed ==
  [][ /\ op'.name = "read_done" =>
           /\ \A k \in DOMAIN op'.steps :
                op'.steps[k].timeout_ = now + TIMEOUT_DELAY
           /\ app'.timeout_ = now + TIMEOUT_DELAY
      /\ op'.name \in {"periodic", "advance"} => app'.timeout_ = app.timeout_
      /\ op'.name = "periodic" /\ ~op'.v0 /\ ~op'.v1 =>
           /\ now <= app.timeout_ => SetTo(op', "CONNECTED")
           /\ now > app.timeout_ => SetTo(op', "DISCONNECTED")
    ]_vars

\* C15 witness: a space, which the parser ignores, was the last byte
\* consumed, the clock has gone 1 us past the deadline that byte set, and a
\* tick with no valve active has set the indicator to DISCONNECTED.
C15_Witness ==
  /\ op.name = "periodic" /\ ~op.v0 /\ ~op.v1
  /\ trail # <<>> /\ trail[Len(trail)].c = chr.SPACE
  /\ trail[Len(trail)].cmd = Parser_init
  /\ now = app.timeout_ + 1 /\ app.timeout_ > TIMEOUT_DELAY
  /\ SetTo(op, "DISCONNECTED")

(***************************************************************************)
(* The stream of responses: C13, C16 (under SpecCmd).                      *)
(***************************************************************************)
\* The tag bytes: R, A and E.
Tags == {82, 65, 69}

\* r is one response: a tag byte first, CR LF last and no LF before.
WholeResponse(r) ==
  /\ Len(r) >= 3
  /\ r[1] \in Tags
  /\ r[Len(r) - 1] = chr.CR /\ r[Len(r)] = chr.LF
  /\ \A k \in 1..(Len(r) - 1) : r[k] # chr.LF

\* C13 as stated: the bytes that a byte parsed adds to the stream handed to
\* the transport, if any, are one response, which begins with a tag byte and
\* ends with CR LF; they are added at the end of the bytes not yet sent.
C13_StreamOfWholeResponses ==
  \A k \in DOMAIN LastSteps :
    LET st == LastSteps[k]
    IN  /\ st.content[2] = st.content[1] \o st.put
        /\ st.put # <<>> => WholeResponse(st.put)

\* C13, amended: every response rendered begins with a tag byte and ends
\* with CR LF, and what is added to the stream, at the end of the bytes not
\* yet sent, is its first Min(F, L) bytes, F being the free space: the whole
\* response when it has room, and else a response cut short, with no CR LF,
\* which the next response follows directly.
C13_StreamOfResponsePrefixes ==
  \A k \in DOMAIN LastSteps :
    LET st == LastSteps[k]
    IN  /\ st.content[2] = st.content[1] \o st.put
        /\ \E hw \in HwReadings :
             LET r == Response(st, hw)
             IN  /\ st.put = Take(r, st.free)
                 /\ r # <<>> => WholeResponse(r)
                 /\ Len(r) <= st.free /\ r # <<>> => WholeResponse(st.put)

\* C13 witness: after a drain, a whole response, tag byte to CR LF, was
\* added to the stream across the end of the storage.
C13_Witness ==
  \E k \in DOMAIN LastSteps :
    LET st == LastSteps[k]
    IN  /\ st.tx_sent[1] > 0
        /\ WholeResponse(st.put)
        /\ st.tx_index[2] < st.tx_index[1]

\* The calls on the hardware that the dispatch of the command of
\* observation st makes.
DispatchCalls(st) ==
  IF st.cmd.command = "RESET" /\ st.cmd.values[0] = USB_BOOT_CODE
    THEN <<[call |-> "reset_usb_boot"]>>
  ELSE IF st.cmd.command = "RESET" /\ st.cmd.values[0] = REBOOT_CODE
    THEN <<[call |-> "watchdog_reboot", arg |-> RESET_DELAY_MS]>>
  ELSE PulseCalls(st)

\* C16: in App::read_done each byte is parsed where the byte before left the
\* parser and the output buffer; a byte for which Parser::parse returns true
\* is followed by one dispatch (its calls on the hardware and its response,
\* as far as it fits) and by the reset of the parser before the next byte; a
\* byte for which it returns false is followed by no dispatch; and each
\* response is appended behind the bytes queued before it.
C16_DispatchedInOrder ==
  \A k \in DOMAIN LastSteps :
    LET st == LastSteps[k]
    IN  /\ st.content[2] = st.content[1] \o st.put
        /\ \E hw \in HwReadings : st.put = Take(Response(st, hw), st.free)
        /\ k + 1 \in DOMAIN LastSteps =>
             /\ LastSteps[k + 1].before = st.after
             /\ LastSteps[k + 1].content[1] = st.content[2]
             /\ LastSteps[k + 1].tx_index[1] = st.tx_index[2]
        /\ st.ret =>
             /\ st.calls = DispatchCalls(st)
             /\ st.boot # "usb_boot" => st.after = Parser_init
             /\ k + 1 \in DOMAIN LastSteps =>
                  LastSteps[k + 1].before = Parser_init
        /\ ~st.ret => st.calls = <<>> /\ st.after = st.cmd

\* C16 witness: two commands completed in one packet; the response of the
\* first, whole, is in the output buffer before that of the second.
C16_Witness ==
  \E j, k \in DOMAIN LastSteps :
    /\ j < k
    /\ LastSteps[j].ret /\ LastSteps[k].ret
    /\ WholeResponse(LastSteps[j].put) /\ LastSteps[k].put # <<>>
    /\ LastSteps[k].calls # <<>>
    /\ LastSteps[k].content[2] =
         LastSteps[j].content[1] \o LastSteps[j].put \o LastSteps[k].put

(***************************************************************************)
(* The slot index: C17 (under Spec).                                       *)
(***************************************************************************)
\* C17 as stated: in every parser state reached, those in which a command
\* is dispatched included, state NEXT_VALUE or VALUE implies index < 2.
C17_IndexAlwaysInBounds ==
  /\ app.parser.state \in {"NEXT_VALUE", "VALUE"} =>
       app.parser.index < NUM_VALUES
  /\ \A k \in DOMAIN LastSteps :
       LET st == LastSteps[k]
       IN  /\ st.before.state \in {"NEXT_VALUE", "VALUE"} =>
                st.before.index < NUM_VALUES
           /\ st.cmd.state \in {"NEXT_VALUE", "VALUE"} =>
                st.cmd.index < NUM_VALUES

\* C17, amended: whenever Parser::parse examines a byte in state NEXT_VALUE
\* or VALUE, index < 2, so that values[index] is never accessed out of
\* bounds, whatever separators were fed.  A separator met in VALUE at the
\* last slot leaves (VALUE, index = 2): Parser::parse has then returned
\* true, the command is dispatched in that state, and the parser is reset
\* before the next byte (or, after reset_usb_boot, no byte follows).
C17_IndexInBoundsWhenExamined ==
  /\ app.boot # "usb_boot" /\ app.parser.state \in {"NEXT_VALUE", "VALUE"} =>
       app.parser.index < NUM_VALUES
  /\ \A k \in DOMAIN LastSteps :
       LET st == LastSteps[k]
       IN  /\ st.before.state \in {"NEXT_VALUE", "VALUE"} =>
                st.before.index \in 0..(NUM_VALUES - 1)
           /\ st.cmd.state \in {"NEXT_VALUE", "VALUE"}
              /\ st.cmd.index >= NUM_VALUES =>
                /\ st.ret /\ st.cmd.state = "VALUE"
                /\ st.cmd.index = NUM_VALUES
                /\ st.c \in {chr.COMMA, chr.COLON}
                /\ st.before.index = NUM_VALUES - 1
                /\ st.boot # "usb_boot" => st.after = Parser_init

\* C17 witness: after the separator that began the second value, a
\* separator in state VALUE with index 1: Parser::parse returned true with
\* index 2, and the parser was reset after the dispatch.
C17_Witness ==
  \E k \in DOMAIN LastSteps :
    LET st == LastSteps[k]
    IN  /\ st.before.state = "VALUE" /\ st.before.index = 1
        /\ st.c = chr.COLON
        /\ st.ret /\ st.cmd.index = 2 /\ st.cmd.state = "VALUE"
        /\ app.parser = Parser_init

(***************************************************************************)
(* The digits of a value: C18 (under SpecCmd).                             *)
(***************************************************************************)
\* C18: a digit d in state VALUE makes the current slot (values[index] * 10
\* + d) mod 2^16 and changes nothing else of the parser; the first digit of
\* a value, in NEXT_VALUE, makes the slot d and the state VALUE; after 'R'
\* and digits d1..dk, slot 0 holds the number d1..dk modulo 65536.
C18_DigitsModulo65536 ==
  /\ \A k \in DOMAIN LastSteps :
       LET st == LastSteps[k]
           b  == st.before
           d  == st.c - chr.ZERO
       IN  /\ b.state = "VALUE" /\ IsDigit(st.c) =>
                /\ ~st.ret
                /\ st.cmd = [b EXCEPT !.values[b.index] =
                                        (b.values[b.index] * 10 + d) % UINT16]
                /\ st.after = st.cmd
           /\ b.state = "NEXT_VALUE" /\ IsDigit(st.c) =>
                /\ ~st.ret
                /\ st.cmd = [b EXCEPT !.values[b.index] = d,
                                      !.state = "VALUE"]
                /\ st.after = st.cmd
  /\ \A k \in DOMAIN trail :
       /\ k >= 2
       /\ TrailBytes[1] \in {chr.r, chr.R}
       /\ AllDigits(SubSeq(TrailBytes, 2, k))
       => /\ trail[k].cmd.values[0] = DecValue(SubSeq(TrailBytes, 2, k)) % UINT16
          /\ trail[k].cmd.values[1] = 0
          /\ trail[k].cmd.command = "RESET" /\ trail[k].cmd.target = 0

\* C18 witness: the fifth digit of "R66569" took slot 0 from 6656 past 2^16:
\* it holds 66569 - 65536 = 1033.
C18_Witness ==
  \E k \in DOMAIN LastSteps :
    LET st == LastSteps[k]
    IN  /\ st.before.state = "VALUE" /\ st.c = 57
        /\ st.before.values[0] = 6656
        /\ st.before.values[0] * 10 + 9 >= UINT16
        /\ st.cmd.values[0] = 1033

(***************************************************************************)
(* The ring as a queue: C19 (under SpecRing).                              *)
(***************************************************************************)
\* C19: with every advance within the span pending() returned, the ring is
\* a first-in first-out queue of capacity C-1.  A put is accepted exactly
\* when fewer than C-1 bytes are queued and then adds its byte at the end;
\* the span pending() exposes is the oldest bytes accepted, in order, and
\* advance(n) removes the first n of them; the bytes the ring holds between
\* its cursors are at all times the bytes accepted and not yet advanced, in
\* order; and pending() returns length 0 exactly when there are none.
C19_BoundedFifo ==
  [][ /\ op'.name = "respond_putc" =>
           /\ op'.ret <=> Len(Content(app)) < output_bufferSIZE - 1
           /\ Content(app') = IF op'.ret THEN Append(Content(app), op'.c)
                              ELSE Content(app)
      /\ op'.name = "write_done" =>
           /\ op'.length <= Len(Span(app))
           /\ Take(Span(app), op'.length) = Take(app.queued, op'.length)
           /\ Content(app') = Drop(Content(app), op'.length)
      /\ Content(app') = app'.queued
      /\ write_buffer(app').size = 0 <=> app'.queued = <<>>
    ]_vars

\* C19 witness: bytes of both values were accepted round the end of the
\* storage, the transport was handed the span at the start of the storage
\* and advanced all of it, and the ring is empty with its cursors off 0.
C19_Witness ==
  /\ contract
  /\ op.name = "write_done"
  /\ op.span.start = 0 /\ op.span.size > 1 /\ op.length = op.span.size
  /\ app.output_buffer[output_bufferSIZE - 1] # 0
  /\ app.output_buffer[0] # app.output_buffer[1]
  /\ app.queued = <<>> /\ write_buffer(app).size = 0
  /\ app.tx_sent = app.tx_index /\ app.tx_sent > 1

(***************************************************************************)
(* Resynchronisation: C20 (under SpecSync).                                *)
(***************************************************************************)
\* C20: whatever state the parser is in, ESC dispatches nothing and queues
\* nothing, and the 'S' after it is dispatched as STATUS, once: the status
\* response is rendered and the parser reset; and a byte other than ESC and
\* the digits met in NEXT_VALUE changes nothing and queues nothing.
C20_EscapeThenStatus ==
  \A k \in DOMAIN LastSteps :
    LET st == LastSteps[k]
    IN  /\ st.c = chr.ESC =>
             /\ ~st.ret /\ st.calls = <<>> /\ st.put = <<>>
             /\ st.after = Parser_init
             /\ k + 1 \in DOMAIN LastSteps /\ LastSteps[k + 1].c = chr.S =>
                  LET nx == LastSteps[k + 1]
                  IN  /\ nx.ret /\ nx.cmd.command = "STATUS"
                      /\ nx.calls = <<>>
                      /\ \E hw \in HwReadings :
                           nx.put = Take(StatusText(hw), nx.free)
                      /\ nx.after = Parser_init
        /\ st.before.state = "NEXT_VALUE" /\ st.c # chr.ESC /\ ~IsDigit(st.c) =>
             /\ ~st.ret /\ st.calls = <<>> /\ st.put = <<>>
             /\ st.after = st.before

\* C20 witness: ESC then 'S' were fed to a parser in state VALUE with index
\* 1 and both values set: the command was dropped and STATUS dispatched.
C20_Witness ==
  /\ Len(LastSteps) = 2
  /\ LastSteps[1].c = chr.ESC
  /\ LastSteps[1].before.state = "VALUE" /\ LastSteps[1].before.index = 1
  /\ LastSteps[1].before.values[0] > 0 /\ LastSteps[1].before.values[1] > 0
  /\ LastSteps[2].c = chr.S /\ LastSteps[2].ret
  /\ LastSteps[2].cmd.command = "STATUS"
  /\ LastSteps[2].put # <<>> /\ LastSteps[2].put[1] = chr.R
  /\ app.parser = Parser_init

====
